---- MODULE Spec2Model ----
(***************************************************************************)
(* Payoff algebra of src/src/payoff.py.                                    *)
(*                                                                         *)
(* Numbers are integers.  Times are counted in half units (2.0 is 4, 6.5   *)
(* is 13), prices and values in whole units.  A numpy value is a record    *)
(* [shape, data]: shape <<n>> for a one-dimensional array of n nodes and   *)
(* shape <<>> for a scalar (data then holds the one number).               *)
(*                                                                         *)
(* A method call yields a record [out, self, calls]: out is what the       *)
(* caller sees (a returned value or a raised exception), self is the       *)
(* object after the call and calls lists the children the method invoked,  *)
(* in order.                                                               *)
(***************************************************************************)
EXTENDS Integers, Sequences, FiniteSets, TLC

VARIABLES payoff, spot, value, time, last, run

vars == <<payoff, spot, value, time, last, run>>

(***************************************************************************)
(* Bounds of the model.                                                    *)
(***************************************************************************)
NumNodes == 3

(***************************************************************************)
(* numpy values                                                            *)
(***************************************************************************)
Max(a, b) == IF a >= b THEN a ELSE b

Min(a, b) == IF a <= b THEN a ELSE b

Sub(a, b) == a - b

Add(a, b) == a + b

Mul(a, b) == a * b

Arr(s) == [shape |-> <<Len(s)>>, data |-> s]

PyScalar(x) == [shape |-> <<>>, data |-> <<x>>]

Size(a) == Len(a.data)

ShapeSize(shape) == IF shape = <<>> THEN 1 ELSE shape[1]

np_zeros(shape) == [shape |-> shape, data |-> [i \in 1..ShapeSize(shape) |-> 0]]

np_ones(shape) == [shape |-> shape, data |-> [i \in 1..ShapeSize(shape) |-> 1]]

\* element i of a under broadcasting: a value of one element is repeated
At(a, i) == IF Size(a) = 1 THEN a.data[1] ELSE a.data[i]

BroadcastShape(a, b) ==
    IF a.shape = <<>> THEN b.shape
    ELSE IF b.shape = <<>> THEN a.shape
    ELSE IF a.shape[1] = 1 THEN b.shape ELSE a.shape

np_maximum(a, b) ==
    LET sh == BroadcastShape(a, b)
    IN  [shape |-> sh,
         data |-> [i \in 1..ShapeSize(sh) |-> Max(At(a, i), At(b, i))]]

np_minimum(a, b) ==
    LET sh == BroadcastShape(a, b)
    IN  [shape |-> sh,
         data |-> [i \in 1..ShapeSize(sh) |-> Min(At(a, i), At(b, i))]]

np_subtract(a, b) ==
    LET sh == BroadcastShape(a, b)
    IN  [shape |-> sh,
         data |-> [i \in 1..ShapeSize(sh) |-> Sub(At(a, i), At(b, i))]]

np_add(a, b) ==
    LET sh == BroadcastShape(a, b)
    IN  [shape |-> sh,
         data |-> [i \in 1..ShapeSize(sh) |-> Add(At(a, i), At(b, i))]]

np_multiply(a, b) ==
    LET sh == BroadcastShape(a, b)
    IN  [shape |-> sh,
         data |-> [i \in 1..ShapeSize(sh) |-> Mul(At(a, i), At(b, i))]]

\* the indices a boolean mask selects, ascending (idx = S < L)
MaskIndices(a, L) ==
    LET hit == {i \in 1..Size(a) : a.data[i] < L}
    IN  [k \in 1..Cardinality(hit) |->
            CHOOSE i \in hit : Cardinality({j \in hit : j <= i}) = k]

\* a[idx]
Take(a, ix) == Arr([k \in 1..Len(ix) |-> a.data[ix[k]]])

\* a[idx] = v, with v broadcast over the selected nodes
Put(a, ix, v) ==
    [a EXCEPT !.data = [i \in 1..Size(a) |->
        IF \E k \in 1..Len(ix) : ix[k] = i
        THEN At(v, CHOOSE k \in 1..Len(ix) : ix[k] = i)
        ELSE a.data[i]]]

(***************************************************************************)
(* Outcomes of a call                                                      *)
(***************************************************************************)
Ret(v) == [kind |-> "ret", val |-> v]

Raise(e) == [kind |-> "raise", exc |-> e]

Res(out, self, calls) == [out |-> out, self |-> self, calls |-> calls]

\* a strike field: a number, or None (what the base strike(t) returns)
KNum(k) == [none |-> FALSE, v |-> k]

KNone == [none |-> TRUE, v |-> 0]

(***************************************************************************)
(* Constructors.  np.double(x) keeps the number x, so the fields hold the  *)
(* constructor's arguments.  mutator names the strike(t) of a class        *)
(* composed as class X(VariableStrike, <payoff class>), "none" for the     *)
(* plain payoff class.                                                     *)
(***************************************************************************)
Forward(T, K) == [type |-> "Forward", T |-> T, K |-> KNum(K), mutator |-> "none"]

CallE(T, K) == [type |-> "CallE", T |-> T, K |-> KNum(K), mutator |-> "none"]

CallA(T, K) == [type |-> "CallA", T |-> T, K |-> KNum(K), mutator |-> "none"]

PutE(T, K) == [type |-> "PutE", T |-> T, K |-> KNum(K), mutator |-> "none"]

PutA(T, K) == [type |-> "PutA", T |-> T, K |-> KNum(K), mutator |-> "none"]

PutV(T, K) == [type |-> "PutV", T |-> T, K |-> KNum(K), mutator |-> "none"]

CallVR(T, K) == [type |-> "CallVR", T |-> T, K |-> KNum(K), mutator |-> "none"]

Stack(stack) == [type |-> "Stack", T |-> stack[1].T, stack |-> stack]

UpAndOut(child, L) == [type |-> "UpAndOut", T |-> child.T, payoff |-> child, L |-> L]

Annuity(T, times, C, N, R) ==
    [type |-> "Annuity", T |-> T, times |-> times, C |-> C, N |-> N, R |-> R]

AnnuityI(T, times, C, N, R) ==
    [type |-> "AnnuityI", T |-> T, times |-> times, C |-> C, N |-> N, R |-> R]

\* an entry of a Time restriction list: a scalar instant or a 2-tuple
Instant(x) == [kind |-> "scalar", at |-> x, l |-> x, u |-> x]

Interval(l, u) == [kind |-> "pair", at |-> l, l |-> l, u |-> u]

IsPair(e) == e.kind = "pair"

\* the times setter: a 2-tuple is clipped to [0, T] and appended to the
\* intervals; a scalar (time[0] fails) is kept when it lies in [0, T]
Time_times_setter(self, times) ==
    LET pairs == SelectSeq(times, IsPair)
    IN  [self EXCEPT
            !.time_discrete = {times[i].at : i \in {j \in 1..Len(times) :
                                  /\ times[j].kind = "scalar"
                                  /\ 0 <= times[j].at
                                  /\ times[j].at <= self.T}},
            !.time_continuous = [i \in 1..Len(pairs) |->
                                  <<Max(pairs[i].l, 0), Min(pairs[i].u, self.T)>>]]

Time(child, times) ==
    Time_times_setter([type |-> "Time", T |-> child.T, payoff |-> child,
                       time_discrete |-> {}, time_continuous |-> <<>>], times)

\* class X(VariableStrike, C) over an instance built by C's constructor
Composed(p, fn) == [p EXCEPT !.mutator = fn]

IsStrikeBearing(p) ==
    p.type \in {"Forward", "CallE", "CallA", "PutE", "PutA", "PutV", "CallVR"}

(***************************************************************************)
(* Payoff                                                                  *)
(***************************************************************************)
\* return 0 <= t <= T: the name T is not defined in the module, so the
\* chained comparison raises NameError as soon as 0 <= t lets it reach T
Payoff_contains(self, t) ==
    Res(IF 0 <= t THEN Raise("NameError") ELSE Ret(FALSE), self, <<>>)

Payoff_default(self, t, S) ==
    Res(IF t = self.T THEN Raise("AssertionError") ELSE Ret(np_zeros(S.shape)),
        self, <<>>)

Payoff_terminal(self, S) == Res(Ret(np_zeros(S.shape)), self, <<>>)

Payoff_transient(self, t, V, S) ==
    Res(IF t = self.T THEN Raise("AssertionError") ELSE Ret(V), self, <<>>)

Payoff_coupon(self, t) == Res(Ret(0), self, <<>>)

(***************************************************************************)
(* Simple payoffs.  Arithmetic with a strike of None raises TypeError.     *)
(***************************************************************************)
Forward_terminal(self, S) ==
    Res(IF self.K.none THEN Raise("TypeError")
        ELSE Ret(np_subtract(S, PyScalar(self.K.v))), self, <<>>)

CallE_terminal(self, S) ==
    Res(IF self.K.none THEN Raise("TypeError")
        ELSE Ret(np_maximum(np_subtract(S, PyScalar(self.K.v)), PyScalar(0))),
        self, <<>>)

CallA_default(self, t, S) ==
    Res(IF t = self.T THEN Raise("AssertionError")
        ELSE IF self.K.none THEN Raise("TypeError")
        ELSE Ret(np_maximum(np_subtract(S, PyScalar(self.K.v)), PyScalar(0))),
        self, <<>>)

\* the exercise value replaces the continuation value
CallA_transient_Exercise(self, t, V, S) ==
    Res(IF t = self.T THEN Raise("AssertionError")
        ELSE IF self.K.none THEN Raise("TypeError")
        ELSE Ret(np_subtract(S, PyScalar(self.K.v))),
        self, <<>>)

CallA_transient(self, t, V, S) ==
    Res(IF t = self.T THEN Raise("AssertionError")
        ELSE IF self.K.none THEN Raise("TypeError")
        ELSE Ret(np_maximum(V, np_subtract(S, PyScalar(self.K.v)))),
        self, <<>>)

PutE_terminal(self, S) ==
    Res(IF self.K.none THEN Raise("TypeError")
        ELSE Ret(np_maximum(np_subtract(PyScalar(self.K.v), S), PyScalar(0))),
        self, <<>>)

PutA_default(self, t, S) ==
    Res(IF t = self.T THEN Raise("AssertionError")
        ELSE IF self.K.none THEN Raise("TypeError")
        ELSE Ret(np_maximum(np_subtract(PyScalar(self.K.v), S), PyScalar(0))),
        self, <<>>)

PutA_transient(self, t, V, S) ==
    Res(IF t = self.T THEN Raise("AssertionError")
        ELSE IF self.K.none THEN Raise("TypeError")
        ELSE Ret(np_maximum(V, np_subtract(PyScalar(self.K.v), S))),
        self, <<>>)

PutV_transient(self, t, V, S) ==
    Res(IF t = self.T THEN Raise("AssertionError")
        ELSE IF self.K.none THEN Raise("TypeError")
        ELSE Ret(np_maximum(V, PyScalar(self.K.v))),
        self, <<>>)

CallVR_transient(self, t, V, S) ==
    Res(IF t = self.T THEN Raise("AssertionError")
        ELSE IF self.K.none THEN Raise("TypeError")
        ELSE Ret(np_minimum(V, PyScalar(self.K.v))),
        self, <<>>)

(***************************************************************************)
(* Stock independent payoffs                                               *)
(***************************************************************************)
Annuity_contains(self, t) == Res(Ret(t \in self.times), self, <<>>)

Annuity_default(self, t, S) ==
    Res(IF t = self.T THEN Raise("AssertionError")
        ELSE Ret(np_multiply(np_multiply(np_ones(S.shape), PyScalar(self.N)),
                             PyScalar(self.R))),
        self, <<>>)

Annuity_terminal(self, S) ==
    Res(Ret(np_multiply(np_ones(S.shape), PyScalar(self.N))), self, <<>>)

Annuity_coupon(self, t) ==
    Res(IF Annuity_contains(self, t).out.val THEN Ret(self.C) ELSE Ret(0),
        self, <<>>)

AnnuityI_default(self, t, S) ==
    Res(IF t = self.T THEN Raise("AssertionError")
        ELSE Ret(np_multiply(np_multiply(np_ones(S.shape), PyScalar(self.N)),
                             PyScalar(self.R))),
        self, <<>>)

\* the coupon is added at every step, scheduled or not
AnnuityI_transient_Always(self, t, V, S) ==
    Res(IF t = self.T THEN Raise("AssertionError")
        ELSE Ret(np_add(V, PyScalar(self.C))),
        self, <<>>)

AnnuityI_transient(self, t, V, S) ==
    Res(IF t = self.T THEN Raise("AssertionError")
        ELSE IF t \in self.times THEN Ret(np_add(V, PyScalar(self.C)))
        ELSE Ret(V),
        self, <<>>)

AnnuityI_terminal(self, S) ==
    LET V == np_multiply(np_ones(S.shape), PyScalar(self.N))
    IN  Res(IF self.T \in self.times THEN Ret(np_add(V, PyScalar(self.C)))
            ELSE Ret(V),
            self, <<>>)

(***************************************************************************)
(* Method dispatch (the method resolution order of each class)             *)
(***************************************************************************)
RECURSIVE contains(_, _)
RECURSIVE default(_, _, _)
RECURSIVE terminal(_, _)
RECURSIVE transient(_, _, _, _)
RECURSIVE coupon(_, _)

(***************************************************************************)
(* Stack                                                                   *)
(***************************************************************************)
\* for payoff in self.stack[i:]: V = np.maximum(V, payoff.default(t, S))
RECURSIVE Stack_default_loop(_, _, _, _, _)
Stack_default_loop(self, t, S, i, acc) ==
    IF i > Len(self.stack) THEN acc
    ELSE LET r == default(self.stack[i], t, S)
             calls == Append(acc.calls, i)
         IN  IF r.out.kind = "raise" THEN Res(r.out, self, calls)
             ELSE Stack_default_loop(self, t, S, i + 1,
                     Res(Ret(np_maximum(acc.out.val, r.out.val)), self, calls))

Stack_default(self, t, S) ==
    IF t = self.T THEN Res(Raise("AssertionError"), self, <<>>)
    ELSE LET r == default(self.stack[1], t, S)
         IN  IF r.out.kind = "raise" THEN Res(r.out, self, <<1>>)
             ELSE Stack_default_loop(self, t, S, 2, Res(r.out, self, <<1>>))

\* for payoff in self.stack[i:]: V = payoff.transient(t, V, S)
RECURSIVE Stack_transient_loop(_, _, _, _, _, _)
Stack_transient_loop(self, t, V, S, i, calls) ==
    IF i > Len(self.stack) THEN Res(Ret(V), self, calls)
    ELSE LET r == transient(self.stack[i], t, V, S)
             after == [self EXCEPT !.stack[i] = r.self]
         IN  IF r.out.kind = "raise" THEN Res(r.out, after, Append(calls, i))
             ELSE Stack_transient_loop(after, t, r.out.val, S, i + 1,
                                       Append(calls, i))

\* the fold starts at the second child, as the loops of default and
\* terminal do
Stack_transient_SkipFirst(self, t, V, S) ==
    IF t = self.T THEN Res(Raise("AssertionError"), self, <<>>)
    ELSE Stack_transient_loop(self, t, V, S, 2, <<>>)

Stack_transient(self, t, V, S) ==
    IF t = self.T THEN Res(Raise("AssertionError"), self, <<>>)
    ELSE Stack_transient_loop(self, t, V, S, 1, <<>>)

\* for payoff in self.stack[i:]: V = np.maximum(V, payoff.terminal(S))
RECURSIVE Stack_terminal_loop(_, _, _, _)
Stack_terminal_loop(self, S, i, acc) ==
    IF i > Len(self.stack) THEN acc
    ELSE LET r == terminal(self.stack[i], S)
             calls == Append(acc.calls, i)
         IN  IF r.out.kind = "raise" THEN Res(r.out, self, calls)
             ELSE Stack_terminal_loop(self, S, i + 1,
                     Res(Ret(np_maximum(acc.out.val, r.out.val)), self, calls))

\* np.double(V) keeps the shape and the numbers of V
Stack_terminal(self, S) ==
    LET r == terminal(self.stack[1], S)
    IN  IF r.out.kind = "raise" THEN Res(r.out, self, <<1>>)
        ELSE Stack_terminal_loop(self, S, 2, Res(r.out, self, <<1>>))

\* for payoff in self.stack[i:]: V += payoff.coupon(t)
RECURSIVE Stack_coupon_loop(_, _, _, _)
Stack_coupon_loop(self, t, i, acc) ==
    IF i > Len(self.stack) THEN acc
    ELSE LET r == coupon(self.stack[i], t)
             calls == Append(acc.calls, i)
         IN  IF r.out.kind = "raise" THEN Res(r.out, self, calls)
             ELSE Stack_coupon_loop(self, t, i + 1,
                     Res(Ret(acc.out.val + r.out.val), self, calls))

Stack_coupon(self, t) == Stack_coupon_loop(self, t, 1, Res(Ret(0), self, <<>>))

(***************************************************************************)
(* Time                                                                    *)
(***************************************************************************)
\* an interval is taken open at its upper end
Time_contains_OpenUpper(self, t) ==
    Res(IF t \in self.time_discrete THEN Ret(TRUE)
        ELSE IF \E i \in 1..Len(self.time_continuous) :
                    /\ self.time_continuous[i][1] <= t
                    /\ t < self.time_continuous[i][2]
             THEN Ret(TRUE)
             ELSE Ret(FALSE),
        self, <<>>)

Time_contains(self, t) ==
    Res(IF t \in self.time_discrete THEN Ret(TRUE)
        ELSE IF \E i \in 1..Len(self.time_continuous) :
                    /\ self.time_continuous[i][1] <= t
                    /\ t <= self.time_continuous[i][2]
             THEN Ret(TRUE)
             ELSE Ret(FALSE),
        self, <<>>)

Time_default(self, t, S) ==
    IF t = self.T THEN Res(Raise("AssertionError"), self, <<>>)
    ELSE IF Time_contains(self, t).out.val
         THEN Res(default(self.payoff, t, S).out, self, <<1>>)
         ELSE Res(Ret(np_zeros(S.shape)), self, <<>>)

\* the child is consulted whether or not t is active
Time_transient_Ungated(self, t, V, S) ==
    IF t = self.T THEN Res(Raise("AssertionError"), self, <<>>)
    ELSE LET r == transient(self.payoff, t, V, S)
         IN  Res(r.out, [self EXCEPT !.payoff = r.self], <<1>>)

Time_transient(self, t, V, S) ==
    IF t = self.T THEN Res(Raise("AssertionError"), self, <<>>)
    ELSE IF Time_contains(self, t).out.val
         THEN LET r == transient(self.payoff, t, V, S)
              IN  Res(r.out, [self EXCEPT !.payoff = r.self], <<1>>)
         ELSE Res(Ret(V), self, <<>>)

\* out of time the method returns the int 0, not an array
Time_terminal(self, S) ==
    IF Time_contains(self, self.T).out.val
    THEN Res(terminal(self.payoff, S).out, self, <<1>>)
    ELSE Res(Ret(PyScalar(0)), self, <<>>)

Time_coupon(self, t) ==
    IF Time_contains(self, t).out.val
    THEN Res(coupon(self.payoff, t).out, self, <<1>>)
    ELSE Res(Ret(0), self, <<>>)

(***************************************************************************)
(* UpAndOut                                                                *)
(***************************************************************************)
\* V[idx] = r: r is broadcast over the selected nodes or the shapes clash
Assign(V, ix, r) ==
    IF r.kind = "raise" THEN r
    ELSE IF Size(r.val) \in {1, Len(ix)} THEN Ret(Put(V, ix, r.val))
    ELSE Raise("ValueError")

UpAndOut_default(self, t, S) ==
    IF t = self.T THEN Res(Raise("AssertionError"), self, <<>>)
    ELSE LET idx == MaskIndices(S, self.L)
         IN  Res(Assign(np_zeros(S.shape), idx,
                        default(self.payoff, t, Take(S, idx)).out), self, <<1>>)

\* the child is skipped when the mask selects no node
UpAndOut_transient_SkipEmpty(self, t, V, S) ==
    LET idx == MaskIndices(S, self.L)
        r == transient(self.payoff, t, Take(V, idx), Take(S, idx))
    IN  IF Len(idx) = 0 THEN Res(Ret(np_zeros(S.shape)), self, <<>>)
        ELSE Res(Assign(np_zeros(S.shape), idx, r.out),
                 [self EXCEPT !.payoff = r.self], <<1>>)

\* no assertion of its own: the child is called whatever t and the mask are
UpAndOut_transient(self, t, V, S) ==
    LET idx == MaskIndices(S, self.L)
        r == transient(self.payoff, t, Take(V, idx), Take(S, idx))
    IN  Res(Assign(np_zeros(S.shape), idx, r.out),
            [self EXCEPT !.payoff = r.self], <<1>>)

\* the mask keeps the nodes at the barrier (S <= L)
UpAndOut_terminal_AtBarrier(self, S) ==
    LET idx == MaskIndices(S, self.L + 1)
    IN  Res(Assign(np_zeros(S.shape), idx,
                   terminal(self.payoff, Take(S, idx)).out), self, <<1>>)

UpAndOut_terminal(self, S) ==
    LET idx == MaskIndices(S, self.L)
    IN  Res(Assign(np_zeros(S.shape), idx,
                   terminal(self.payoff, Take(S, idx)).out), self, <<1>>)

\* t in self is Payoff.__contains__
UpAndOut_coupon(self, t) ==
    LET c == Payoff_contains(self, t).out
    IN  IF c.kind = "raise" THEN Res(c, self, <<>>)
        ELSE IF c.val THEN Res(coupon(self.payoff, t).out, self, <<1>>)
        ELSE Res(Ret(0), self, <<>>)

(***************************************************************************)
(* VariableStrike                                                          *)
(***************************************************************************)
\* the base strike(t) has a docstring for a body: it returns None
VariableStrike_strike(self, t) == Ret(KNone)

\* the strike(t) a composed class supplies: a strike that moves with t, or
\* one that fails
StrikeOverride(self, t) ==
    IF self.mutator = "linear" THEN Ret(KNum(self.K.v + t + 10))
    ELSE Raise("ValueError")

strike(self, t) ==
    IF self.mutator = "base" THEN VariableStrike_strike(self, t)
    ELSE StrikeOverride(self, t)

\* the transient of the class that follows VariableStrike in the method
\* resolution order
SuperTransient(self, t, V, S) ==
    CASE self.type = "CallA" -> CallA_transient(self, t, V, S)
      [] self.type = "PutA" -> PutA_transient(self, t, V, S)
      [] self.type = "PutV" -> PutV_transient(self, t, V, S)
      [] self.type = "CallVR" -> CallVR_transient(self, t, V, S)
      [] self.type = "AnnuityI" -> AnnuityI_transient(self, t, V, S)
      [] OTHER -> Payoff_transient(self, t, V, S)

\* the strike is put back on a normal return only (no finally)
VariableStrike_transient_NoFinally(self, t, V, S) ==
    LET K_origin == self.K
        k == strike(self, t)
    IN  IF k.kind = "raise" THEN Res(k, self, <<>>)
        ELSE LET r == SuperTransient([self EXCEPT !.K = k.val], t, V, S)
             IN  IF r.out.kind = "raise" THEN Res(r.out, r.self, <<>>)
                 ELSE Res(r.out, [r.self EXCEPT !.K = K_origin], <<>>)

\* K_origin = self.K; try: self.K = self.strike(t); return super().transient
\* finally: self.K = K_origin
VariableStrike_transient(self, t, V, S) ==
    LET K_origin == self.K
        k == strike(self, t)
    IN  IF k.kind = "raise" THEN Res(k, [self EXCEPT !.K = K_origin], <<>>)
        ELSE LET r == SuperTransient([self EXCEPT !.K = k.val], t, V, S)
             IN  Res(r.out, [r.self EXCEPT !.K = K_origin], <<>>)

(***************************************************************************)
(* Dispatch                                                                *)
(***************************************************************************)
contains(p, t) ==
    CASE p.type = "Time" -> Time_contains(p, t)
      [] p.type = "Annuity" -> Annuity_contains(p, t)
      [] OTHER -> Payoff_contains(p, t)

default(p, t, S) ==
    CASE p.type = "CallA" -> CallA_default(p, t, S)
      [] p.type = "PutA" -> PutA_default(p, t, S)
      [] p.type = "Stack" -> Stack_default(p, t, S)
      [] p.type = "Time" -> Time_default(p, t, S)
      [] p.type = "UpAndOut" -> UpAndOut_default(p, t, S)
      [] p.type = "Annuity" -> Annuity_default(p, t, S)
      [] p.type = "AnnuityI" -> AnnuityI_default(p, t, S)
      [] OTHER -> Payoff_default(p, t, S)

terminal(p, S) ==
    CASE p.type = "Forward" -> Forward_terminal(p, S)
      [] p.type \in {"CallE", "CallA"} -> CallE_terminal(p, S)
      [] p.type \in {"PutE", "PutA"} -> PutE_terminal(p, S)
      [] p.type = "Stack" -> Stack_terminal(p, S)
      [] p.type = "Time" -> Time_terminal(p, S)
      [] p.type = "UpAndOut" -> UpAndOut_terminal(p, S)
      [] p.type = "Annuity" -> Annuity_terminal(p, S)
      [] p.type = "AnnuityI" -> AnnuityI_terminal(p, S)
      [] OTHER -> Payoff_terminal(p, S)

transient(p, t, V, S) ==
    CASE p.type = "Stack" -> Stack_transient(p, t, V, S)
      [] p.type = "Time" -> Time_transient(p, t, V, S)
      [] p.type = "UpAndOut" -> UpAndOut_transient(p, t, V, S)
      [] IsStrikeBearing(p) /\ p.mutator # "none" ->
            VariableStrike_transient(p, t, V, S)
      [] OTHER -> SuperTransient(p, t, V, S)

coupon(p, t) ==
    CASE p.type = "Stack" -> Stack_coupon(p, t)
      [] p.type = "Time" -> Time_coupon(p, t)
      [] p.type = "UpAndOut" -> UpAndOut_coupon(p, t)
      [] p.type = "Annuity" -> Annuity_coupon(p, t)
      [] OTHER -> Payoff_coupon(p, t)

(***************************************************************************)
(* The payoffs, node arrays and times the calls are made with.             *)
(* T = 20 is a maturity of 10.0; the restriction <<Instant(4),             *)
(* Interval(10, 14)>> is {2.0, (5.0, 7.0)}.                                *)
(***************************************************************************)
\* a node: its spot price and the continuation value the engine holds there
NodeLevels == {<<90, -1>>, <<120, 105>>, <<150, 5>>}

TimePoints == {-1, 4, 6, 10, 13, 14, 15, 20, 21}

Grids == [1..NumNodes -> NodeLevels]

SpotOf(g) == Arr([i \in 1..NumNodes |-> g[i][1]])

ValueOf(g) == Arr([i \in 1..NumNodes |-> g[i][2]])

Restrictions ==
    { <<Instant(4), Interval(10, 14)>>,
      <<Interval(-2, 6), Instant(21), Instant(-1)>>,
      <<Interval(15, 30), Instant(13)>>,
      <<Instant(20)>> }

Leaves ==
    { Forward(20, 100), CallE(20, 100), CallA(20, 100), PutE(20, 100),
      PutA(20, 100), PutV(20, 100), CallVR(20, 50),
      Annuity(20, {4, 20}, 5, 100, 1), AnnuityI(20, {4, 20}, 5, 100, 1) }

Composites ==
    { Composed(CallA(20, 100), "linear"), Composed(CallA(20, 100), "base"),
      Composed(CallA(20, 100), "raises"), Composed(PutA(20, 100), "linear"),
      Composed(PutA(20, 100), "raises"), Composed(Forward(20, 100), "base"),
      Composed(PutV(20, 100), "linear"), Composed(CallVR(20, 50), "base") }

Stacks ==
    { Stack(<<PutV(20, 100), CallVR(20, 50)>>),
      Stack(<<CallVR(20, 50), PutV(20, 100)>>),
      Stack(<<CallA(20, 100), PutA(20, 100)>>),
      Stack(<<AnnuityI(20, {4, 20}, 5, 100, 1), CallA(20, 100), CallVR(20, 50)>>),
      Stack(<<Annuity(20, {4, 20}, 5, 100, 1), PutV(20, 100)>>),
      Stack(<<Composed(CallA(20, 100), "linear"), PutV(20, 100)>>),
      Stack(<<PutV(20, 100), Composed(PutA(20, 100), "raises"), CallVR(20, 50)>>) }

TimeChildren ==
    { CallA(20, 100), PutV(20, 100), Annuity(20, {4, 20}, 5, 100, 1),
      UpAndOut(CallE(20, 100), 120), Composed(PutA(20, 100), "raises"),
      Stack(<<CallA(20, 100), CallVR(20, 50)>>) }

Times == {Time(c, r) : c \in TimeChildren, r \in Restrictions}

UpAndOutChildren ==
    { CallE(20, 100), CallA(20, 100), PutA(20, 100), Forward(20, 100),
      AnnuityI(20, {4, 20}, 5, 100, 1), UpAndOut(PutA(20, 100), 150),
      Time(CallA(20, 100), <<Instant(4), Interval(10, 14)>>),
      Stack(<<PutV(20, 100), CallVR(20, 50)>>),
      Composed(CallA(20, 100), "linear") }

UpAndOuts == {UpAndOut(c, 120) : c \in UpAndOutChildren}

Payoffs == Leaves \cup Composites \cup Stacks \cup Times \cup UpAndOuts

(***************************************************************************)
(* The calls a pricing engine makes on the payoff, at the current time     *)
(* with the current node arrays.                                           *)
(***************************************************************************)
NoCall == [op |-> "none", out |-> Ret(0), calls |-> <<>>]

Called(op, r) == [op |-> op, out |-> r.out, calls |-> r.calls]

NoRun == [phase |-> "none"]

Init ==
    /\ payoff \in Payoffs
    /\ \E g \in Grids : spot = SpotOf(g) /\ value = ValueOf(g)
    /\ time \in TimePoints
    /\ last = NoCall
    /\ run = NoRun

DoContains ==
    /\ last' = Called("contains", contains(payoff, time))
    /\ UNCHANGED <<payoff, spot, value, time, run>>

DoDefault ==
    /\ last' = Called("default", default(payoff, time, spot))
    /\ UNCHANGED <<payoff, spot, value, time, run>>

DoTerminal ==
    /\ last' = Called("terminal", terminal(payoff, spot))
    /\ UNCHANGED <<payoff, spot, value, time, run>>

DoTransient ==
    LET r == transient(payoff, time, value, spot)
    IN  /\ last' = Called("transient", r)
        /\ payoff' = r.self
        /\ UNCHANGED <<spot, value, time, run>>

DoCoupon ==
    /\ last' = Called("coupon", coupon(payoff, time))
    /\ UNCHANGED <<payoff, spot, value, time, run>>

\* the engine moves one point back in time
Step ==
    /\ \E prev \in TimePoints :
          /\ prev < time
          /\ \A x \in TimePoints : x < time => x <= prev
          /\ time' = prev
    /\ last' = NoCall
    /\ UNCHANGED <<payoff, spot, value, run>>

Next == DoContains \/ DoDefault \/ DoTerminal \/ DoTransient \/ DoCoupon \/ Step

Spec == Init /\ [][Next]_vars

(***************************************************************************)
(* A backward run over a standalone bond: terminal once at T, then         *)
(* transient at each earlier step, the engine adding coupon(t) to its      *)
(* cashflow account.  The run prices AnnuityI and, beside it, the Annuity  *)
(* built with the same arguments.                                          *)
(***************************************************************************)
Twin(p) == Annuity(p.T, p.times, p.C, p.N, p.R)

Bonds ==
    {AnnuityI(T, times, C, 100, R) :
        T \in {4, 6}, times \in SUBSET {2, 4, 6}, C \in {0, 5}, R \in {0, 1}}

InitRun ==
    /\ payoff \in Bonds
    /\ \E g \in Grids : spot = SpotOf(g)
    /\ value = np_zeros(spot.shape)
    /\ time = payoff.T
    /\ last = NoCall
    /\ run = [phase |-> "start", VA |-> np_zeros(spot.shape), acc |-> 0,
              prevI |-> np_zeros(spot.shape), prevA |-> np_zeros(spot.shape)]

RunTerminal ==
    /\ run.phase = "start"
    /\ LET r == terminal(payoff, spot)
       IN  /\ last' = Called("terminal", r)
           /\ value' = r.out.val
    /\ run' = [phase |-> "back",
               VA |-> terminal(Twin(payoff), spot).out.val,
               acc |-> coupon(Twin(payoff), payoff.T).out.val,
               prevI |-> value, prevA |-> run.VA]
    /\ UNCHANGED <<payoff, spot, time>>

RunStep ==
    /\ run.phase = "back"
    /\ time > 0
    /\ time' = time - 1
    /\ LET r == transient(payoff, time', value, spot)
       IN  /\ last' = Called("transient", r)
           /\ value' = r.out.val
           /\ payoff' = r.self
    /\ run' = [phase |-> "back",
               VA |-> transient(Twin(payoff), time', run.VA, spot).out.val,
               acc |-> run.acc + coupon(Twin(payoff), time').out.val,
               prevI |-> value, prevA |-> run.VA]
    /\ UNCHANGED spot

NextRun == RunTerminal \/ RunStep

SpecRun == InitRun /\ [][NextRun]_vars

(***************************************************************************)
(* Properties                                                              *)
(***************************************************************************)
IsComposed(p) == IsStrikeBearing(p) /\ p.mutator # "none"

\* the strike fields of the composed payoffs of a tree, in tree order
RECURSIVE ComposedStrikes(_)
RECURSIVE ComposedStrikesOfStack(_, _)
ComposedStrikesOfStack(stack, i) ==
    IF i > Len(stack) THEN <<>>
    ELSE ComposedStrikes(stack[i]) \o ComposedStrikesOfStack(stack, i + 1)

ComposedStrikes(p) ==
    CASE p.type = "Stack" -> ComposedStrikesOfStack(p.stack, 1)
      [] p.type \in {"Time", "UpAndOut"} -> ComposedStrikes(p.payoff)
      [] IsStrikeBearing(p) -> IF IsComposed(p) THEN <<p.K>> ELSE <<>>
      [] OTHER -> <<>>

\* C1: no call changes the strike field K of a payoff composed with
\* VariableStrike, alone or inside a combinator: after transient(t, V, S)
\* has returned or raised, K is what it was before the call, and so is
\* never the substituted strike(t).
C1_StrikeRestored ==
    [][ComposedStrikes(payoff)' = ComposedStrikes(payoff)]_vars

\* a transient call on a composed CallA whose strike(t) gave None raised
\* TypeError inside the wrapped transient, and K is the constructed strike
C1_Witness ==
    /\ IsComposed(payoff)
    /\ payoff.type = "CallA"
    /\ payoff.mutator = "base"
    /\ last.op = "transient"
    /\ last.out = Raise("TypeError")
    /\ payoff.K = KNum(100)

BaseMembership ==
    {"Forward", "CallE", "CallA", "PutE", "PutA", "PutV", "CallVR", "AnnuityI",
     "Stack", "UpAndOut"}

\* C3: for a payoff that keeps the base membership, t in payoff returns
\* true iff 0 <= t <= T and false otherwise; UpAndOut.coupon(t) returns the
\* child's coupon(t) when 0 <= t <= T and 0 otherwise.
C3_BaseMembership ==
    /\ (last.op = "contains" /\ payoff.type \in BaseMembership)
          => last.out = Ret(0 <= time /\ time <= payoff.T)
    /\ (last.op = "coupon" /\ payoff.type = "UpAndOut")
          => last.out = IF 0 <= time /\ time <= payoff.T
                        THEN coupon(payoff.payoff, time).out
                        ELSE Ret(0)

\* what the restriction list r says of t for a payoff of maturity T
Listed(r, T, t) ==
    \/ \E i \in 1..Len(r) :
          r[i].kind = "scalar" /\ r[i].at = t /\ 0 <= r[i].at /\ r[i].at <= T
    \/ \E i \in 1..Len(r) :
          r[i].kind = "pair" /\ Max(r[i].l, 0) <= t /\ t <= Min(r[i].u, T)

\* C4: for a Time payoff built from a restriction list, t in payoff is true
\* iff t is a listed instant within [0, T] or max(l, 0) <= t <= min(u, T)
\* for a listed interval (l, u); for {2.0, (5.0, 7.0)} and T = 10 it is true
\* at 2.0, 5.0, 6.5, 7.0 and false at 3.0 and 7.5.
C4_TimeMembership ==
    (last.op = "contains" /\ payoff.type = "Time") =>
        /\ \A r \in Restrictions :
              payoff = Time(payoff.payoff, r)
                  => last.out = Ret(Listed(r, payoff.T, time))
        /\ ( /\ payoff = Time(payoff.payoff, <<Instant(4), Interval(10, 14)>>)
             /\ payoff.T = 20
             /\ time \in {4, 6, 10, 13, 14, 15} )
              => last.out = Ret(time \in {4, 10, 13, 14})

\* the membership test at 7.0, the closed upper end of (5.0, 7.0)
C4_Witness ==
    /\ payoff.type = "Time"
    /\ payoff = Time(payoff.payoff, <<Instant(4), Interval(10, 14)>>)
    /\ time = 14
    /\ last.op = "contains"
    /\ last.out = Ret(TRUE)

\* C5: for a Time payoff and t # T, default, transient and coupon give what
\* the child gives for the same arguments when t is active; when t is not
\* active the child is not called and default gives zeros of the shape of
\* S, transient gives V and coupon gives 0.
C5_TimeGate ==
    (payoff.type = "Time" /\ time # payoff.T) =>
        LET active == Time_contains(payoff, time).out.val
            child == payoff.payoff
        IN  /\ last.op = "default" =>
                 IF active
                 THEN last.out = default(child, time, spot).out /\ last.calls = <<1>>
                 ELSE last.out = Ret(np_zeros(spot.shape)) /\ last.calls = <<>>
            /\ last.op = "transient" =>
                 IF active
                 THEN /\ last.out = transient(child, time, value, spot).out
                      /\ last.calls = <<1>>
                 ELSE last.out = Ret(value) /\ last.calls = <<>>
            /\ last.op = "coupon" =>
                 IF active
                 THEN last.out = coupon(child, time).out /\ last.calls = <<1>>
                 ELSE last.out = Ret(0) /\ last.calls = <<>>

\* transient out of time passed V through although the child's own
\* transient changes V at some node
C5_Witness ==
    /\ payoff.type = "Time"
    /\ time # payoff.T
    /\ ~Time_contains(payoff, time).out.val
    /\ last.op = "transient"
    /\ last.out = Ret(value)
    /\ transient(payoff.payoff, time, value, spot).out # Ret(value)

NodeOf(a, i) == Arr(<<a.data[i]>>)

\* C6: UpAndOut's terminal, default and transient (t # T) return an array
\* of the shape of S that is 0 at every node with S[i] >= L and the child's
\* value at node i elsewhere; with L = 120, child CallE(T, 100) and
\* S = [90, 120, 150] terminal gives [0, 0, 0].
C6_KnockOut ==
    (payoff.type = "UpAndOut") =>
        LET child == payoff.payoff
            Masked(at(_)) ==
                /\ last.out.kind = "ret"
                /\ last.out.val.shape = spot.shape
                /\ \A i \in 1..Size(spot) :
                      last.out.val.data[i] =
                          IF spot.data[i] >= payoff.L THEN 0 ELSE At(at(i), 1)
            term(i) == terminal(child, NodeOf(spot, i)).out.val
            dflt(i) == default(child, time, NodeOf(spot, i)).out.val
            trans(i) ==
                transient(child, time, NodeOf(value, i), NodeOf(spot, i)).out.val
        IN  /\ last.op = "terminal" => Masked(term)
            /\ (last.op = "default" /\ time # payoff.T) => Masked(dflt)
            /\ (last.op = "transient" /\ time # payoff.T) => Masked(trans)
            /\ ( /\ last.op = "terminal"
                 /\ payoff = UpAndOut(CallE(20, 100), 120)
                 /\ spot = Arr(<<90, 120, 150>>) )
                  => last.out = Ret(Arr(<<0, 0, 0>>))

\* terminal on [.., 120, ..] over CallE(T, 100) with L = 120: the node at
\* the barrier, worth 20 to the child, is zero
C6_Witness ==
    /\ payoff = UpAndOut(CallE(20, 100), 120)
    /\ last.op = "terminal"
    /\ \E i \in 1..Size(spot) : spot.data[i] = 120 /\ last.out.val.data[i] = 0
    /\ \E i \in 1..Size(spot) : spot.data[i] = 90

\* C7: for a Stack and t # T, transient(t, V, S) is the children's
\* transient applied once each in listed order, each on the previous one's
\* output; the order matters: Stack[PutV(K1), CallVR(K2)] gives
\* min(max(V, K1), K2) and the reversed stack max(min(V, K2), K1).
C7_StackFold ==
    (payoff.type = "Stack" /\ last.op = "transient" /\ time # payoff.T) =>
        LET c == payoff.stack
            r1 == transient(c[1], time, value, spot).out
            r2 == transient(c[2], time, r1.val, spot).out
            r3 == transient(c[3], time, r2.val, spot).out
        IN  /\ Len(c) \in {2, 3}
            /\ IF r1.kind = "raise" THEN last.out = r1 /\ last.calls = <<1>>
               ELSE IF r2.kind = "raise" THEN last.out = r2 /\ last.calls = <<1, 2>>
               ELSE IF Len(c) = 2 THEN last.out = r2 /\ last.calls = <<1, 2>>
               ELSE last.out = r3 /\ last.calls = <<1, 2, 3>>
            /\ payoff = Stack(<<PutV(20, 100), CallVR(20, 50)>>) =>
                  /\ last.out.kind = "ret"
                  /\ \A i \in 1..Size(value) :
                        last.out.val.data[i] = Min(Max(value.data[i], 100), 50)
            /\ payoff = Stack(<<CallVR(20, 50), PutV(20, 100)>>) =>
                  /\ last.out.kind = "ret"
                  /\ \A i \in 1..Size(value) :
                        last.out.val.data[i] = Max(Min(value.data[i], 50), 100)

\* Stack[PutV, CallVR] returned something the reversed stack does not
C7_Witness ==
    /\ payoff = Stack(<<PutV(20, 100), CallVR(20, 50)>>)
    /\ last.op = "transient"
    /\ last.out.kind = "ret"
    /\ last.out #
          transient(Stack(<<CallVR(20, 50), PutV(20, 100)>>), time, value, spot).out

\* C8 as stated: for CallA and PutA and t # T, transient(t, V, S) is at
\* every node >= V and >= intrinsic(S), the value default(t, S) returns.
C8_DominatesIntrinsic ==
    ( /\ payoff.type \in {"CallA", "PutA"}
      /\ ~IsComposed(payoff)
      /\ last.op = "transient"
      /\ time # payoff.T ) =>
        /\ last.out.kind = "ret"
        /\ \A i \in 1..Size(spot) :
              /\ last.out.val.data[i] >= value.data[i]
              /\ last.out.val.data[i] >= default(payoff, time, spot).out.val.data[i]

\* C8 amended: for CallA and PutA and t # T, transient(t, V, S) is at every
\* node >= V and >= the exercise value (S - K for the call, K - S for the
\* put), and >= intrinsic(S) at every node where V >= 0.
C8_DominatesExercise ==
    ( /\ payoff.type \in {"CallA", "PutA"}
      /\ ~IsComposed(payoff)
      /\ last.op = "transient"
      /\ time # payoff.T ) =>
        /\ last.out.kind = "ret"
        /\ \A i \in 1..Size(spot) :
              LET exercise == IF payoff.type = "CallA"
                              THEN spot.data[i] - payoff.K.v
                              ELSE payoff.K.v - spot.data[i]
              IN  /\ last.out.val.data[i] >= value.data[i]
                  /\ last.out.val.data[i] >= exercise
                  /\ value.data[i] >= 0 =>
                        last.out.val.data[i] >=
                            default(payoff, time, spot).out.val.data[i]

\* CallA.transient on a node with V >= 0 where exercise beats V, and on a
\* node out of the money with V < 0
C8_Witness ==
    /\ payoff = CallA(20, 100)
    /\ last.op = "transient"
    /\ time # payoff.T
    /\ last.out.kind = "ret"
    /\ \E i \in 1..Size(spot) :
          /\ value.data[i] >= 0
          /\ last.out.val.data[i] = spot.data[i] - 100
          /\ last.out.val.data[i] > value.data[i]
    /\ \E i \in 1..Size(spot) : value.data[i] < 0 /\ spot.data[i] < 100

\* C10: Time.terminal(S) returns the child's terminal(S) when T is active
\* and otherwise zeros of the shape of S, so that every result of terminal
\* has the shape of the node array.
C10_TerminalShape ==
    (payoff.type = "Time" /\ last.op = "terminal") =>
        /\ last.out = IF Time_contains(payoff, payoff.T).out.val
                      THEN terminal(payoff.payoff, spot).out
                      ELSE Ret(np_zeros(spot.shape))
        /\ last.out.kind = "ret" => last.out.val.shape = spot.shape

\* C9: for AnnuityI and the Annuity built with the same T, schedule, C, N
\* and R: AnnuityI.terminal(S) is Annuity.terminal(S) + Annuity.coupon(T);
\* for t # T AnnuityI.transient(t, V, S) is V + Annuity.coupon(t) while
\* Annuity.transient returns V; over a backward run the value AnnuityI
\* carries is the value Annuity carries plus the coupons accumulated from
\* Annuity.coupon; with C = 5, N = 100, schedule {1, 2, 3} and T = 3,
\* AnnuityI.transient(1, V, S) is V + 5.
C9_IntrinsicCoupon ==
    (run.phase = "back") =>
        LET twin == Twin(payoff)
        IN  /\ last.out.kind = "ret"
            /\ value = last.out.val
            /\ value = np_add(run.VA, PyScalar(run.acc))
            /\ last.op = "terminal" =>
                  /\ time = payoff.T
                  /\ run.VA = Arr([i \in 1..Size(spot) |-> payoff.N])
                  /\ value = np_add(Annuity_terminal(twin, spot).out.val,
                                    PyScalar(Annuity_coupon(twin, payoff.T).out.val))
            /\ last.op = "transient" =>
                  /\ time # payoff.T
                  /\ value = np_add(run.prevI,
                                    PyScalar(Annuity_coupon(twin, time).out.val))
                  /\ run.VA = run.prevA
            /\ ( /\ last.op = "transient"
                 /\ payoff.T = 6 /\ payoff.times = {2, 4, 6} /\ payoff.C = 5
                 /\ time = 2 )
                  => value = np_add(run.prevI, PyScalar(5))

\* the run of the bond C = 5, N = 100, schedule {1, 2, 3}, T = 3 has come
\* down to t = 1: AnnuityI carries 115, Annuity 100 beside 15 of coupons
C9_Witness ==
    /\ run.phase = "back"
    /\ payoff.T = 6 /\ payoff.times = {2, 4, 6} /\ payoff.C = 5
    /\ time = 2
    /\ last.op = "transient"
    /\ value = Arr([i \in 1..Size(spot) |-> 115])
    /\ run.VA = Arr([i \in 1..Size(spot) |-> 100])
    /\ run.acc = 15

====
